---- MODULE Spec2Model ----
(***************************************************************************)
(* Model of the load generators of load-test/:                             *)
(*   - IncrementalLoadTester (load_test.py): an asyncio engine.  One event *)
(*     loop thread runs the main coroutine run_load_test, the worker tasks *)
(*     controlled_worker and the monitor task; a task runs from one await  *)
(*     to the next without interleaving with other tasks.  The only code   *)
(*     that can run in the middle of a task step is signal_handler.        *)
(*   - KubernetesLoadTester (load_test_enhanced.py): OS threads.           *)
(* Time is the wall clock time.time() in whole seconds; it advances in     *)
(* steps of Quantum seconds.  CancelledError is a BaseException (Python    *)
(* 3.8 and later), so "except Exception" does not catch it.                *)
(***************************************************************************)
EXTENDS Integers, Sequences, FiniteSets, TLC

(* ---------------------------- bounds ---------------------------------- *)
\* outcomes inside the trailing window of a snapshot taken on its own
MaxWindowSamples == 11
\* length of the latency lists the percentile computations are applied to
MaxLatencies == 4
\* seconds by which one step of the clock advances time.time()
Quantum == 20
\* the clock reading at construction (any positive epoch second)
Epoch == 100
\* requests issued by all workers together (session.get calls)
MaxRequests == 2
\* deliveries of SIGINT / SIGTERM
MaxSignals == 2

(* ------------------- configuration (constructor arguments) ------------ *)
\* duration_minutes values tried: a zero-duration run and a one-minute run
DurationMinutes == {0, 1}
initial_tps == 1
delta_time_minutes == 1
delta_tps == 1
delta_time_seconds == delta_time_minutes * 60

(* ------------------- program constants -------------------------------- *)
\* aiohttp.ClientTimeout(total=10)
RequestTimeout == 10
\* asyncio.sleep(5) of the monitor
MonitorInterval == 5
\* recent_cutoff = current_time - 10
RecentWindow == 10
\* min(500, ...) worker cap
WorkerCap == 500

\* the clock stops advancing once the longest duration wait is over
MaxTime == Epoch + 60

None == -1
\* status_codes keys: HTTP statuses and the key 'error' (written ERROR)
ERROR == 0
HttpStatuses == {200, 500}
StatusKeys == HttpStatuses \cup {ERROR}
Times == Epoch .. (MaxTime + Quantum)

Min(a, b) == IF a < b THEN a ELSE b
Max(a, b) == IF a > b THEN a ELSE b

VARIABLES
    duration_seconds,     \* self.duration_seconds
    running,              \* self.running
    start_time, end_time, \* self.start_time / self.end_time (None = unset)
    response_times,       \* self.response_times (ms)
    timestamps,           \* self.timestamps
    successful_requests, failed_requests,
    status_codes,         \* self.status_codes
    second_buckets,       \* self.second_buckets
    active_workers,       \* self.active_workers
    time_series,          \* self.time_series_data, one record per point
    lock,                 \* holder of self.lock: None, or a worker id
    now,                  \* time.time()
    mainpc,               \* position of main() / run_load_test
    mainWake,             \* when asyncio.sleep(duration_seconds) is due
    tasks,                \* worker tasks: id -> [pc, start, status, cancel]
    monitor,              \* monitor task: [pc, wake, cancel] and its locals
    metrics,              \* what calculate_metrics returned / raised
    metrics_state,        \* engine state when calculate_metrics was called
    issued,               \* history: number of requests sent
    signals,              \* history: number of signal_handler runs
    signal_time           \* history: clock of the first signal that found
                          \* the engine running in its duration wait

ivars == <<duration_seconds, running, start_time, end_time, response_times,
           timestamps, successful_requests, failed_requests, status_codes,
           second_buckets, active_workers, time_series, lock, now, mainpc,
           mainWake, tasks, monitor, metrics, metrics_state, issued, signals,
           signal_time>>

\* KubernetesLoadTester (load_test_enhanced.py)
VARIABLES
    k_config,             \* run_load_test arguments: total_requests,
                          \* concurrent_threads, duration (units of 0.1 s)
    k_now,                \* time.time() in units of 0.1 s
    k_start_time,         \* start_time of run_load_test
    kpc,                  \* position of run_load_test
    threads,              \* the list "threads": ids of the threads kept
    request_count,        \* request_count
    kthread,              \* request threads: id -> [pc, resp, tmp]
    results,              \* self.results
    k_response_times,     \* self.response_times
    pod_distribution,     \* self.pod_distribution
    errors,               \* self.errors
    k_outcome             \* how analyze_results ended, and the report

kvars == <<k_config, k_now, k_start_time, kpc, threads, request_count,
           kthread, results, k_response_times, pod_distribution, errors,
           k_outcome>>

\* A pure function applied on its own (its arguments and what it returned),
\* outside a run of either tester
VARIABLES
    probe

vars == <<ivars, kvars, probe>>

sinkVars == <<response_times, timestamps, successful_requests,
              failed_requests, status_codes, second_buckets>>
histVars == <<issued, signals, signal_time>>
metricVars == <<metrics, metrics_state>>


(* ============================ pure helpers ============================ *)

\* self.duration_seconds // self.delta_time_seconds and the pool size of
\* run_load_test: min(500, initial_tps + (duration // delta_time) * delta_tps)
max_workers(dur) ==
    Min(WorkerCap, initial_tps + (dur \div delta_time_seconds) * delta_tps)

\* get_current_target_tps without the floor division: the elapsed time is
\* truncated towards zero, as int(elapsed / delta) would
target_tps_Truncate(st, t, init, delta_seconds, step) ==
    IF st = None \/ st = 0
    THEN init
    ELSE LET elapsed == t - st
             q == IF elapsed >= 0 THEN elapsed \div delta_seconds
                  ELSE 0 - ((0 - elapsed) \div delta_seconds)
         IN  init + q * step

\* get_current_target_tps without the multiplication by the number of
\* intervals: one step is added once the first interval is over
target_tps_OneStep(st, t, init, delta_seconds, step) ==
    IF st = None \/ st = 0
    THEN init
    ELSE init + (IF t - st >= delta_seconds THEN step ELSE 0)

\* get_current_target_tps with start_time = st, time.time() = t and the
\* configuration (initial_tps, delta_time_seconds, delta_tps).
\* "not self.start_time" is true for None and for 0; "//" is Python's floor
\* division, which rounds towards minus infinity.
target_tps(st, t, init, delta_seconds, step) ==
    IF st = None \/ st = 0
    THEN init
    ELSE LET elapsed == t - st
             intervals_passed == elapsed \div delta_seconds
         IN  init + intervals_passed * step

\* calculate_delay_for_tps(target_tps) for target_tps = num / den, den > 0
\* (lines 83-87), in seconds as the fraction [num, den]: 1.0 for a
\* non-positive rate, else 1.0 / target_tps
calculate_delay_for_tps(num, den) ==
    IF num <= 0 THEN [num |-> 1, den |-> 1]
    ELSE [num |-> den, den |-> num]

\* controlled_worker lines 132-133: the delay of one iteration,
\* calculate_delay_for_tps(current_target / max(1, self.active_workers))
worker_delay(current_target, active) ==
    calculate_delay_for_tps(current_target, Max(1, active))

\* get_current_target_tps of the tester of the run, read at clock t
get_current_target_tps(t) ==
    target_tps(start_time, t, initial_tps, delta_time_seconds, delta_tps)

\* sorted(a), ascending
RECURSIVE Insert(_, _)
Insert(x, s) ==
    IF s = <<>> THEN <<x>>
    ELSE IF x <= Head(s) THEN <<x>> \o s
    ELSE <<Head(s)>> \o Insert(x, Tail(s))

RECURSIVE Sorted(_)
Sorted(s) == IF s = <<>> THEN <<>> ELSE Insert(Head(s), Sorted(Tail(s)))

RECURSIVE SeqSum(_)
SeqSum(s) == IF s = <<>> THEN 0 ELSE Head(s) + SeqSum(Tail(s))

RECURSIVE SeqMax(_)
SeqMax(s) == IF Len(s) = 1 THEN s[1] ELSE Max(Head(s), SeqMax(Tail(s)))

RECURSIVE SeqMin(_)
SeqMin(s) == IF Len(s) = 1 THEN s[1] ELSE Min(Head(s), SeqMin(Tail(s)))

\* np.percentile(a, p), default linear interpolation, times 100 (a exact
\* integer): virtual index (N-1)*p/100 into the sorted data, interpolating
\* between the two neighbours.  a must be non-empty.
np_percentile_x100(a, p) ==
    LET srt == Sorted(a)
        n   == Len(a)
        pos == (n - 1) * p
        lo  == pos \div 100
        fr  == pos % 100
        hi  == Min(lo + 1, n - 1)
    IN  srt[lo + 1] * 100 + (srt[hi + 1] - srt[lo + 1]) * fr

\* sum of a function's values
RECURSIVE FnSum(_, _)
FnSum(f, S) ==
    IF S = {} THEN 0
    ELSE LET x == CHOOSE y \in S : TRUE IN f[x] + FnSum(f, S \ {x})

\* max(self.second_buckets.values()) if any else 0; a defaultdict holds only
\* the keys that were written, which are those with a positive count
max_tps ==
    LET used == {t \in DOMAIN second_buckets : second_buckets[t] > 0}
    IN  IF used = {} THEN 0
        ELSE CHOOSE m \in {second_buckets[t] : t \in used} :
                 \A t \in used : second_buckets[t] <= m

\* no function has been applied
NoProbe == [fn |-> "none"]

(* ============================== engine state ========================== *)

Workers == DOMAIN tasks

\* Engine lifecycle of section 4.5 read off run_load_test's position and
\* the running flag
EngineState ==
    IF mainpc \in {"init", "installed"} THEN "Idle"
    ELSE IF mainpc = "done" THEN "Stopped"
    ELSE IF running THEN "Running"
    ELSE "Stopping"

\* no progress line has been printed
NoProgress == [target |-> None, actual_x5 |-> None, successful |-> None,
               total |-> None]

\* IncrementalLoadTester.__init__ with duration_minutes = m
IncrementalInit(m) ==
    /\ duration_seconds = m * 60
    /\ running = FALSE
    /\ start_time = None
    /\ end_time = None
    /\ response_times = <<>>
    /\ timestamps = <<>>
    /\ successful_requests = 0
    /\ failed_requests = 0
    /\ status_codes = [k \in StatusKeys |-> 0]
    /\ second_buckets = [t \in Times |-> 0]
    /\ active_workers = 0
    /\ time_series = <<>>
    /\ lock = None
    /\ now = Epoch
    /\ mainpc = "init"
    /\ mainWake = None
    /\ tasks = <<>>
    /\ monitor = [pc |-> "none", wake |-> None, cancel |-> FALSE,
                  last_requests |-> 0, last_target_tps |-> initial_tps,
                  progress |-> NoProgress]
    /\ metrics = [kind |-> "not_called"]
    /\ metrics_state = "none"
    /\ issued = 0
    /\ signals = 0
    /\ signal_time = None


(* ===================== worker tasks (controlled_worker) =============== *)

\* LoopTop that does not look at the flag ("while True:")
LoopTop_NoTest(w, active) ==
    /\ issued < MaxRequests
    /\ tasks' = [tasks EXCEPT ![w].pc = "tested"]
    /\ issued' = issued
    /\ active_workers' = active

\* The test of "while self.running:" in controlled_worker for worker w,
\* entered with active_workers already counting w.  Running: go on into
\* the loop body.  Not running: leave the loop through "finally".
LoopTop(w, active) ==
    IF running
    THEN /\ issued < MaxRequests
         /\ tasks' = [tasks EXCEPT ![w].pc = "tested"]
         /\ issued' = issued
         /\ active_workers' = active
    ELSE /\ tasks' = [tasks EXCEPT ![w].pc = "done"]
         /\ issued' = issued
         /\ active_workers' = active - 1

\* A worker is between its loop test and its request.  No other task runs
\* then (the worker has not reached an await); signal_handler can.
InStep == \E w \in Workers : tasks[w].pc = "tested"

\* The event loop is free to run a step of another task: no critical
\* section and no worker step is under way
LoopFree == lock = None /\ ~InStep

\* The rest of the iteration after the loop test (lines 131-135 and
\* 94-99): read the target rate, compute the delay, enter make_request
\* (start_time = time.time()) and suspend in session.get.
WorkerSend(w) ==
    /\ tasks[w].pc = "tested"
    /\ tasks' = [tasks EXCEPT ![w].pc = "inflight", ![w].start = now]
    /\ issued' = issued + 1
    /\ UNCHANGED <<kvars, probe>>
    /\ UNCHANGED <<duration_seconds, running, start_time, end_time, sinkVars,
                   active_workers, time_series, lock, now, mainpc, mainWake,
                   monitor, metricVars, signals, signal_time>>

\* create_task queues the first steps of the workers, in creation order,
\* and then of the monitor on the loop's FIFO ready queue: they run in that
\* order before any task is resumed a second time.
AllStarted ==
    /\ \A w \in Workers : tasks[w].pc # "created"
    /\ monitor.pc \notin {"none", "created"}

\* First step of a worker task: "async with self.worker_semaphore" (1000
\* permits for at most 500 workers, so it never waits), active_workers += 1,
\* then the loop.
WorkerStart(w) ==
    /\ LoopFree
    /\ tasks[w].pc = "created"
    /\ \A v \in Workers : v < w => tasks[v].pc # "created"
    /\ LoopTop(w, active_workers + 1)
    /\ UNCHANGED <<kvars, probe>>
    /\ UNCHANGED <<duration_seconds, running, start_time, end_time, sinkVars,
                   time_series, lock, now, mainpc, mainWake, monitor,
                   metricVars, signals, signal_time>>

\* An exception raised in the loop body outside make_request's own try
\* (lines 131-133 of controlled_worker, lines 96-97 of make_request): the
\* "except Exception" of line 138 encloses the whole while loop, so the
\* worker prints the error, runs "finally" and ends.
WorkerFault(w) ==
    /\ tasks[w].pc = "tested"
    /\ tasks' = [tasks EXCEPT ![w].pc = "done"]
    /\ active_workers' = active_workers - 1
    /\ UNCHANGED <<kvars, probe>>
    /\ UNCHANGED <<duration_seconds, running, start_time, end_time, sinkVars,
                   time_series, lock, now, mainpc, mainWake, monitor,
                   metricVars, histVars>>

\* WorkerResponse that publishes the latency without its timestamp
WorkerResponse_NoTimestamp(w, status) ==
    /\ LoopFree
    /\ AllStarted
    /\ tasks[w].pc = "inflight"
    /\ ~tasks[w].cancel
    /\ now - tasks[w].start < RequestTimeout
    /\ mainpc = "sleep" /\ duration_seconds > 0
    /\ lock' = w
    /\ response_times' = Append(response_times, (now - tasks[w].start) * 1000)
    /\ status_codes' = [status_codes EXCEPT ![status] = @ + 1]
    /\ second_buckets' = [second_buckets EXCEPT ![now] = @ + 1]
    /\ tasks' = [tasks EXCEPT ![w].pc = "locked", ![w].status = status]
    /\ UNCHANGED <<kvars, probe>>
    /\ UNCHANGED <<duration_seconds, running, start_time, end_time,
                   timestamps, successful_requests, failed_requests,
                   active_workers, time_series, now, mainpc, mainWake,
                   monitor, metricVars, histVars>>

\* make_request, a response arrives with the given status before the
\* timeout: take self.lock and publish latency, timestamp, status count and
\* second bucket (lines 100-107).
WorkerResponse(w, status) ==
    /\ LoopFree
    /\ AllStarted
    /\ tasks[w].pc = "inflight"
    /\ ~tasks[w].cancel
    /\ now - tasks[w].start < RequestTimeout
    \* the selector is polled only once the main coroutine sleeps on a timer
    /\ mainpc = "sleep" /\ duration_seconds > 0
    /\ lock' = w
    /\ response_times' = Append(response_times, (now - tasks[w].start) * 1000)
    /\ timestamps' = Append(timestamps, now)
    /\ status_codes' = [status_codes EXCEPT ![status] = @ + 1]
    /\ second_buckets' = [second_buckets EXCEPT ![now] = @ + 1]
    /\ tasks' = [tasks EXCEPT ![w].pc = "locked", ![w].status = status]
    /\ UNCHANGED <<kvars, probe>>
    /\ UNCHANGED <<duration_seconds, running, start_time, end_time,
                   successful_requests, failed_requests, active_workers,
                   time_series, now, mainpc, mainWake, monitor, metricVars,
                   histVars>>

\* WorkerRecord that counts every response as a success ("if
\* response.status:" instead of "== 200")
WorkerRecord_AnyStatus(w) ==
    /\ lock = w
    /\ tasks[w].pc = "locked"
    /\ successful_requests' = successful_requests + 1
    /\ lock' = None
    /\ tasks' = [tasks EXCEPT ![w].pc = "sleeping"]
    /\ UNCHANGED <<kvars, probe>>
    /\ UNCHANGED <<duration_seconds, running, start_time, end_time,
                   response_times, timestamps, failed_requests, status_codes,
                   second_buckets, active_workers, time_series, now, mainpc,
                   mainWake, monitor, metricVars, histVars>>

\* WorkerRecord that returns without releasing the lock (acquire() with
\* no release() instead of "with self.lock:")
WorkerRecord_KeepLock(w) ==
    /\ lock = w
    /\ tasks[w].pc = "locked"
    /\ IF tasks[w].status = 200
       THEN /\ successful_requests' = successful_requests + 1
            /\ failed_requests' = failed_requests
       ELSE /\ failed_requests' = failed_requests + 1
            /\ successful_requests' = successful_requests
    /\ tasks' = [tasks EXCEPT ![w].pc = "sleeping"]
    /\ UNCHANGED <<kvars, probe>>
    /\ UNCHANGED <<duration_seconds, running, start_time, end_time,
                   response_times, timestamps, status_codes, second_buckets,
                   active_workers, time_series, lock, now, mainpc, mainWake,
                   monitor, metricVars, histVars>>

\* make_request, rest of the critical section (lines 109-112): count the
\* outcome, release the lock, return; the worker then awaits
\* asyncio.sleep(delay).
WorkerRecord(w) ==
    /\ lock = w
    /\ tasks[w].pc = "locked"
    /\ IF tasks[w].status = 200
       THEN /\ successful_requests' = successful_requests + 1
            /\ failed_requests' = failed_requests
       ELSE /\ failed_requests' = failed_requests + 1
            /\ successful_requests' = successful_requests
    /\ lock' = None
    /\ tasks' = [tasks EXCEPT ![w].pc = "sleeping"]
    /\ UNCHANGED <<kvars, probe>>
    /\ UNCHANGED <<duration_seconds, running, start_time, end_time,
                   response_times, timestamps, status_codes, second_buckets,
                   active_workers, time_series, now, mainpc, mainWake,
                   monitor, metricVars, histVars>>

\* make_request, "except Exception" (lines 116-124): a transport error at
\* any moment, or the client timeout once RequestTimeout seconds have
\* passed.  The latency is computed and returned but only failed_requests
\* and status_codes['error'] are updated.
WorkerException(w) ==
    /\ LoopFree
    /\ AllStarted
    /\ tasks[w].pc = "inflight"
    /\ ~tasks[w].cancel
    /\ failed_requests' = failed_requests + 1
    /\ status_codes' = [status_codes EXCEPT ![ERROR] = @ + 1]
    /\ tasks' = [tasks EXCEPT ![w].pc = "sleeping"]
    /\ UNCHANGED <<kvars, probe>>
    /\ UNCHANGED <<duration_seconds, running, start_time, end_time,
                   response_times, timestamps, successful_requests,
                   second_buckets, active_workers, time_series, lock, now,
                   mainpc, mainWake, monitor, metricVars, histVars>>

\* asyncio.sleep(delay) returns: next iteration of the loop
WorkerWake(w) ==
    /\ LoopFree
    /\ AllStarted
    /\ tasks[w].pc = "sleeping"
    /\ ~tasks[w].cancel
    /\ LoopTop(w, active_workers)
    /\ UNCHANGED <<kvars, probe>>
    /\ UNCHANGED <<duration_seconds, running, start_time, end_time, sinkVars,
                   time_series, lock, now, mainpc, mainWake, monitor,
                   metricVars, signals, signal_time>>

\* WorkerCancelled without the "finally" of controlled_worker: the
\* cancelled worker is not taken off active_workers
WorkerCancelled_NoFinally(w) ==
    /\ LoopFree
    /\ AllStarted
    /\ tasks[w].pc \in {"inflight", "sleeping"}
    /\ tasks[w].cancel
    /\ tasks' = [tasks EXCEPT ![w].pc = "done"]
    /\ UNCHANGED <<kvars, probe>>
    /\ UNCHANGED <<duration_seconds, running, start_time, end_time, sinkVars,
                   active_workers, time_series, lock, now, mainpc, mainWake,
                   monitor, metricVars, histVars>>

\* task.cancel() took effect: CancelledError is raised at the await the
\* worker is suspended in (session.get / response.text() / asyncio.sleep).
\* Neither "except Exception" catches it; "finally" runs.
WorkerCancelled(w) ==
    /\ LoopFree
    /\ AllStarted
    /\ tasks[w].pc \in {"inflight", "sleeping"}
    /\ tasks[w].cancel
    /\ active_workers' = active_workers - 1
    /\ tasks' = [tasks EXCEPT ![w].pc = "done"]
    /\ UNCHANGED <<kvars, probe>>
    /\ UNCHANGED <<duration_seconds, running, start_time, end_time, sinkVars,
                   time_series, lock, now, mainpc, mainWake, monitor,
                   metricVars, histVars>>


(* ============ monitor task (monitor_incremental_progress) ============= *)

\* [t for t in ts if t >= recent_cutoff], as indices into the list ts of
\* timestamps, with recent_cutoff = t - 10
RecentIdxOf(ts, t) == {i \in 1 .. Len(ts) : ts[i] >= t - RecentWindow}

\* recent_response_times of collect_time_series_data: the response times
\* rts[i], in list order, of the timestamps ts[i] >= recent_cutoff
RECURSIVE RecentOf(_, _, _, _)
RecentOf(ts, rts, i, t) ==
    IF i > Len(ts) THEN <<>>
    ELSE IF ts[i] >= t - RecentWindow
         THEN <<rts[i]>> \o RecentOf(ts, rts, i + 1, t)
         ELSE RecentOf(ts, rts, i + 1, t)

\* the same on the lists of the tester of the run
RecentIdx(t) == RecentIdxOf(timestamps, t)
RecentFrom(i, t) == RecentOf(timestamps, response_times, i, t)

\* collect_point with the elapsed time taken the wrong way round
\* (start_time - current_time)
collect_point_Reversed(t, st, ts, rts, succ, fail, target) ==
    LET recent == RecentOf(ts, rts, 1, t)
        total  == succ + fail
    IN  [ elapsed          |-> st - t,
          current_tps_x10  |-> Cardinality(RecentIdxOf(ts, t)),
          avg_latency_sum  |-> IF recent # <<>> THEN SeqSum(recent) ELSE 0,
          avg_latency_n    |-> Len(recent),
          p90_latency_x100 |-> IF Len(recent) >= 10
                               THEN np_percentile_x100(recent, 90) ELSE 0,
          target_tps       |-> target,
          successful       |-> IF total > 0 THEN succ ELSE 0,
          total            |-> total ]

\* collect_point that computes the p90 of any non-empty window (no
\* "len(recent_response_times) >= 10")
collect_point_AnyP90(t, st, ts, rts, succ, fail, target) ==
    LET recent == RecentOf(ts, rts, 1, t)
        total  == succ + fail
    IN  [ elapsed          |-> t - st,
          current_tps_x10  |-> Cardinality(RecentIdxOf(ts, t)),
          avg_latency_sum  |-> IF recent # <<>> THEN SeqSum(recent) ELSE 0,
          avg_latency_n    |-> Len(recent),
          p90_latency_x100 |-> IF Len(recent) >= 1
                               THEN np_percentile_x100(recent, 90) ELSE 0,
          target_tps       |-> target,
          successful       |-> IF total > 0 THEN succ ELSE 0,
          total            |-> total ]

\* The point collect_time_series_data (lines 143-173) appends at clock t
\* for start_time st, timestamps ts, response times rts, the counters succ
\* and fail and the value target of get_current_target_tps().  Quotients
\* are kept exact: elapsed is in seconds (the list holds elapsed / 60),
\* current_tps * 10, avg_latency as sum and count, p90 * 100, success_rate
\* as the pair (successful, total).
collect_point(t, st, ts, rts, succ, fail, target) ==
    LET recent == RecentOf(ts, rts, 1, t)
        n      == Cardinality(RecentIdxOf(ts, t))
        total  == succ + fail
    IN  [ elapsed          |-> t - st,
          current_tps_x10  |-> n,
          avg_latency_sum  |-> IF recent # <<>> THEN SeqSum(recent) ELSE 0,
          avg_latency_n    |-> Len(recent),
          p90_latency_x100 |-> IF Len(recent) >= 10
                               THEN np_percentile_x100(recent, 90) ELSE 0,
          target_tps       |-> target,
          successful       |-> IF total > 0 THEN succ ELSE 0,
          total            |-> total ]

\* the point appended for the tester of the run at clock t
TimeSeriesPoint(t) ==
    collect_point(t, start_time, timestamps, response_times,
                  successful_requests, failed_requests,
                  get_current_target_tps(t))

\* The values of the progress line printed by the monitor at clock t
\* (lines 240-264): "Target" is current_target_tps, "Actual" is
\* (total_requests - last_requests) / 5 (kept times 5), the success rate is
\* successful_requests / total_requests * 100 or 0 (kept as the pair).
progress_line(t) ==
    LET total == successful_requests + failed_requests
    IN  [ target     |-> get_current_target_tps(t),
          actual_x5  |-> total - monitor.last_requests,
          successful |-> IF total > 0 THEN successful_requests ELSE 0,
          total      |-> total ]

\* First step of the monitor task: the loop test, then asyncio.sleep(5)
MonitorStart ==
    /\ LoopFree
    /\ monitor.pc = "created"
    /\ \A w \in Workers : tasks[w].pc # "created"
    /\ monitor' = IF running
                  THEN [monitor EXCEPT !.pc = "sleeping",
                                       !.wake = now + MonitorInterval]
                  ELSE [monitor EXCEPT !.pc = "done"]
    /\ UNCHANGED <<kvars, probe>>
    /\ UNCHANGED <<duration_seconds, running, start_time, end_time, sinkVars,
                   active_workers, time_series, lock, now, mainpc, mainWake,
                   tasks, metricVars, histVars>>

\* asyncio.sleep(5) returned: one tick of the loop body (target rate,
\* collect_time_series_data, progress line under the lock), then the loop
\* test again.
MonitorTick ==
    /\ LoopFree
    /\ AllStarted
    /\ monitor.pc = "sleeping"
    /\ ~monitor.cancel
    /\ now >= monitor.wake
    /\ time_series' = Append(time_series, TimeSeriesPoint(now))
    /\ monitor' =
         [monitor EXCEPT
            !.progress = progress_line(now),
            !.last_requests = successful_requests + failed_requests,
            !.last_target_tps = get_current_target_tps(now),
            !.pc = IF running THEN "sleeping" ELSE "done",
            !.wake = IF running THEN now + MonitorInterval ELSE @]
    /\ UNCHANGED <<kvars, probe>>
    /\ UNCHANGED <<duration_seconds, running, start_time, end_time, sinkVars,
                   active_workers, lock, now, mainpc, mainWake, tasks,
                   metricVars, histVars>>

\* task.cancel() took effect while the monitor was in asyncio.sleep(5)
MonitorCancelled ==
    /\ LoopFree
    /\ AllStarted
    /\ monitor.pc = "sleeping"
    /\ monitor.cancel
    /\ monitor' = [monitor EXCEPT !.pc = "done"]
    /\ UNCHANGED <<kvars, probe>>
    /\ UNCHANGED <<duration_seconds, running, start_time, end_time, sinkVars,
                   active_workers, time_series, lock, now, mainpc, mainWake,
                   tasks, metricVars, histVars>>

(* ======================= run_load_test (main) ========================= *)

\* lines 177-189: banner, signal.signal(SIGINT / SIGTERM, signal_handler)
MainInstall ==
    /\ mainpc = "init"
    /\ mainpc' = "installed"
    /\ UNCHANGED <<kvars, probe>>
    /\ UNCHANGED <<duration_seconds, running, start_time, end_time, sinkVars,
                   active_workers, time_series, lock, now, mainWake, tasks,
                   monitor, metricVars, histVars>>

\* line 191: self.running = True
MainSetRunning ==
    /\ mainpc = "installed"
    /\ running' = TRUE
    /\ mainpc' = "started"
    /\ UNCHANGED <<kvars, probe>>
    /\ UNCHANGED <<duration_seconds, start_time, end_time, sinkVars,
                   active_workers, time_series, lock, now, mainWake, tasks,
                   monitor, metricVars, histVars>>

\* line 192: self.start_time = time.time()
MainSetStart ==
    /\ mainpc = "started"
    /\ start_time' = now
    /\ mainpc' = "spawn"
    /\ UNCHANGED <<kvars, probe>>
    /\ UNCHANGED <<duration_seconds, running, end_time, sinkVars,
                   active_workers, time_series, lock, now, mainWake, tasks,
                   monitor, metricVars, histVars>>

\* lines 195-212: open the session, create max_workers worker tasks and the
\* monitor task, then await asyncio.sleep(self.duration_seconds)
MainSpawn ==
    /\ mainpc = "spawn"
    /\ tasks' = [w \in 1 .. max_workers(duration_seconds) |->
                   [pc |-> "created", start |-> None, status |-> None,
                    cancel |-> FALSE]]
    /\ monitor' = [monitor EXCEPT !.pc = "created"]
    /\ mainWake' = now + duration_seconds
    /\ mainpc' = "sleep"
    /\ UNCHANGED <<kvars, probe>>
    /\ UNCHANGED <<duration_seconds, running, start_time, end_time, sinkVars,
                   active_workers, time_series, lock, now, metricVars,
                   histVars>>

\* MainStop without "self.running = False" (the stop relies on cancel only)
MainStop_KeepRunning ==
    /\ LoopFree
    /\ mainpc = "sleep"
    /\ now >= mainWake
    /\ AllStarted
    /\ end_time' = now
    /\ tasks' = [w \in Workers |->
                   IF tasks[w].pc = "done" THEN tasks[w]
                   ELSE [tasks[w] EXCEPT !.cancel = TRUE]]
    /\ monitor' = IF monitor.pc = "done" THEN monitor
                  ELSE [monitor EXCEPT !.cancel = TRUE]
    /\ mainpc' = "gather"
    /\ UNCHANGED <<kvars, probe>>
    /\ UNCHANGED <<duration_seconds, running, start_time, sinkVars,
                   active_workers, time_series, lock, now, mainWake,
                   metricVars, histVars>>

\* lines 216-222, after the sleep is over: self.running = False, end_time,
\* task.cancel() for every worker and the monitor (no effect on a task that
\* is done), then await gather.  The tasks created before the sleep are
\* ahead of the main coroutine in the loop's FIFO ready queue, so each has
\* taken its first step.
MainStop ==
    /\ LoopFree
    /\ mainpc = "sleep"
    /\ now >= mainWake
    /\ AllStarted
    /\ running' = FALSE
    /\ end_time' = now
    /\ tasks' = [w \in Workers |->
                   IF tasks[w].pc = "done" THEN tasks[w]
                   ELSE [tasks[w] EXCEPT !.cancel = TRUE]]
    /\ monitor' = IF monitor.pc = "done" THEN monitor
                  ELSE [monitor EXCEPT !.cancel = TRUE]
    /\ mainpc' = "gather"
    /\ UNCHANGED <<kvars, probe>>
    /\ UNCHANGED <<duration_seconds, start_time, sinkVars, active_workers,
                   time_series, lock, now, mainWake, metricVars, histVars>>

\* MainReturn without the gather: return right after cancelling
MainReturn_NoGather ==
    /\ LoopFree
    /\ mainpc = "gather"
    /\ mainpc' = "done"
    /\ UNCHANGED <<kvars, probe>>
    /\ UNCHANGED <<duration_seconds, running, start_time, end_time, sinkVars,
                   active_workers, time_series, lock, now, mainWake, tasks,
                   monitor, metricVars, histVars>>

\* line 225: asyncio.gather(*tasks, monitor_task) is complete; the session
\* closes and run_load_test returns
MainReturn ==
    /\ LoopFree
    /\ mainpc = "gather"
    /\ \A w \in Workers : tasks[w].pc = "done"
    /\ monitor.pc = "done"
    /\ mainpc' = "done"
    /\ UNCHANGED <<kvars, probe>>
    /\ UNCHANGED <<duration_seconds, running, start_time, end_time, sinkVars,
                   active_workers, time_series, lock, now, mainWake, tasks,
                   monitor, metricVars, histVars>>

\* signal_handler that flips the flag instead of clearing it
SignalHandler_Toggle ==
    /\ mainpc # "init"
    /\ signals < MaxSignals
    /\ running' = ~running
    /\ signals' = signals + 1
    /\ signal_time' = IF signal_time = None /\ running /\ mainpc = "sleep"
                      THEN now ELSE signal_time
    /\ UNCHANGED <<kvars, probe>>
    /\ UNCHANGED <<duration_seconds, start_time, end_time, sinkVars,
                   active_workers, time_series, lock, now, mainpc, mainWake,
                   tasks, monitor, metricVars, issued>>

\* signal_handler (lines 69-72), once installed; it runs between any two
\* bytecodes of the loop thread, also inside a critical section
SignalHandler ==
    /\ mainpc # "init"
    /\ signals < MaxSignals
    /\ running' = FALSE
    /\ signals' = signals + 1
    /\ signal_time' = IF signal_time = None /\ running /\ mainpc = "sleep"
                      THEN now ELSE signal_time
    /\ UNCHANGED <<kvars, probe>>
    /\ UNCHANGED <<duration_seconds, start_time, end_time, sinkVars,
                   active_workers, time_series, lock, now, mainpc, mainWake,
                   tasks, monitor, metricVars, issued>>


(* ============================ the clock =============================== *)

\* Work the program does without waiting: start-up, first steps of new
\* tasks, due timers (the main sleep, the monitor's sleep, the request timeout),
\* pending cancellations, the completion of gather.
LoopHasWork ==
    \/ mainpc \in {"init", "installed", "started", "spawn"}
    \/ mainpc = "sleep" /\ now >= mainWake
    \/ mainpc = "gather"
    \/ monitor.pc = "created"
    \/ monitor.pc = "sleeping" /\ (monitor.cancel \/ now >= monitor.wake)
    \/ \E w \in Workers :
         \/ tasks[w].pc = "created"
         \/ tasks[w].pc \in {"inflight", "sleeping"} /\ tasks[w].cancel
         \/ tasks[w].pc = "inflight"
              /\ now - tasks[w].start >= RequestTimeout

\* time.time() advances by Quantum seconds while the loop waits
Tick ==
    /\ LoopFree
    /\ now < MaxTime
    /\ ~LoopHasWork
    /\ now' = now + Quantum
    /\ UNCHANGED <<kvars, probe>>
    /\ UNCHANGED <<duration_seconds, running, start_time, end_time, sinkVars,
                   active_workers, time_series, lock, mainpc, mainWake,
                   tasks, monitor, metricVars, histVars>>

(* ========================= calculate_metrics ========================== *)

\* What calculate_metrics returns or raises in the current state
\* (lines 268-320): None without latencies; TypeError from
\* "self.end_time - self.start_time" while end_time is None;
\* ZeroDivisionError from "total_requests / duration" for a zero duration;
\* otherwise the report (percentiles times 100, mean as sum and count).
calculate_metrics ==
    IF response_times = <<>> THEN [kind |-> "None"]
    ELSE IF end_time = None \/ start_time = None THEN [kind |-> "TypeError"]
    ELSE IF end_time - start_time = 0 THEN [kind |-> "ZeroDivisionError"]
    ELSE [ kind                |-> "report",
           duration_seconds    |-> end_time - start_time,
           total_requests      |-> successful_requests + failed_requests,
           successful_requests |-> successful_requests,
           failed_requests     |-> failed_requests,
           latency_sum         |-> SeqSum(response_times),
           latency_n           |-> Len(response_times),
           p50_x100            |-> np_percentile_x100(response_times, 50),
           p90_x100            |-> np_percentile_x100(response_times, 90),
           p95_x100            |-> np_percentile_x100(response_times, 95),
           p99_x100            |-> np_percentile_x100(response_times, 99),
           min_ms              |-> SeqMin(response_times),
           max_ms              |-> SeqMax(response_times),
           max_tps             |-> max_tps,
           status_codes        |-> status_codes,
           time_series         |-> time_series ]

\* The call itself: the result and the engine state at the call are kept
CallCalculateMetrics ==
    /\ LoopFree
    /\ metrics.kind = "not_called"
    /\ metrics' = calculate_metrics
    /\ metrics_state' = EngineState
    /\ UNCHANGED <<kvars, probe>>
    /\ UNCHANGED <<duration_seconds, running, start_time, end_time, sinkVars,
                   active_workers, time_series, lock, now, mainpc, mainWake,
                   tasks, monitor, histVars>>

\* main(), lines 493-499: calculate_metrics once asyncio.run has returned
CalculateMetrics ==
    /\ mainpc = "done"
    /\ CallCalculateMetrics

\* A call of the public method from other code of the loop thread before
\* run_load_test has returned; nothing in the class prevents it.
CalculateMetricsEarly ==
    /\ mainpc # "done"
    /\ CallCalculateMetrics


(* ======== KubernetesLoadTester (load_test_enhanced.py), threads ======= *)

\* run_load_test arguments tried (duration in units of 0.1 s, the loop's
\* time.sleep(0.1))
KTotalRequests == {0, 2}
KConcurrentThreads == {1, 2}
KDurations == {0, 3}
\* time.sleep(0.1) lasts one unit, or overshoots to two
KSleeps == {1, 2}

\* what requests.get returns: status, the pod name make_request derives
\* (the X-Pod-Name header, else "pod-<hash>" for a 200, else 'unknown') and
\* the measured response time in ms
KResponses ==
    { [status |-> 200, pod |-> "pod-1", ms |-> 5],
      [status |-> 200, pod |-> "pod-2", ms |-> 9],
      [status |-> 500, pod |-> "unknown", ms |-> 7] }
PodNames == {r.pod : r \in KResponses}
NoResponse == [status |-> 0, pod |-> "none", ms |-> 0]

\* KubernetesLoadTester.__init__, and the arguments of the run
KubernetesInit(total, conc, dur) ==
    /\ k_config = [total_requests |-> total, concurrent_threads |-> conc,
                   duration |-> dur]
    /\ k_now = Epoch
    /\ k_start_time = None
    /\ kpc = "start"
    /\ threads = {}
    /\ request_count = 0
    /\ kthread = <<>>
    /\ results = <<>>
    /\ k_response_times = <<>>
    /\ pod_distribution = [p \in PodNames |-> 0]
    /\ errors = <<>>
    /\ k_outcome = [kind |-> "not_run"]

\* run_load_test lines 97-108: banner, initial pod / HPA status,
\* start_time, threads = [], request_count = 0
KStart ==
    /\ kpc = "start"
    /\ k_start_time' = k_now
    /\ threads' = {}
    /\ request_count' = 0
    /\ kpc' = "loop"
    /\ UNCHANGED <<ivars, probe>>
    /\ UNCHANGED <<k_config, k_now, kthread, results, k_response_times,
                   pod_distribution, errors, k_outcome>>

\* the while condition of line 111
KLoopCondition ==
    /\ k_now - k_start_time < k_config.duration
    /\ request_count < k_config.total_requests

\* One iteration of the while loop (lines 111-120): start a request thread
\* if fewer than concurrent_threads are kept, drop the threads that are no
\* longer alive, time.sleep(0.1).
KLoopIteration(d) ==
    /\ kpc = "loop"
    /\ KLoopCondition
    /\ LET room    == Cardinality(threads) < k_config.concurrent_threads
           started == IF room
                      THEN kthread @@ (request_count :>
                               [pc |-> "get", resp |-> NoResponse, tmp |-> 0])
                      ELSE kthread
           kept    == IF room THEN threads \cup {request_count} ELSE threads
       IN  /\ kthread' = started
           /\ request_count' = IF room THEN request_count + 1
                               ELSE request_count
           /\ threads' = {t \in kept : started[t].pc # "done"}
    /\ k_now' = k_now + d
    /\ UNCHANGED <<ivars, probe>>
    /\ UNCHANGED <<k_config, k_start_time, kpc, results, k_response_times,
                   pod_distribution, errors, k_outcome>>

\* the while condition is false: go on to the joins
KLoopExit ==
    /\ kpc = "loop"
    /\ ~KLoopCondition
    /\ kpc' = "join"
    /\ UNCHANGED <<ivars, probe>>
    /\ UNCHANGED <<k_config, k_now, k_start_time, threads, request_count,
                   kthread, results, k_response_times, pod_distribution,
                   errors, k_outcome>>

\* KJoin without the joins: the report is made while threads still run
KJoin_NoWait ==
    /\ kpc = "join"
    /\ kpc' = "analyze"
    /\ UNCHANGED <<ivars, probe>>
    /\ UNCHANGED <<k_config, k_now, k_start_time, threads, request_count,
                   kthread, results, k_response_times, pod_distribution,
                   errors, k_outcome>>

\* lines 122-132: every kept thread is joined; final pod / HPA status
KJoin ==
    /\ kpc = "join"
    /\ \A t \in threads : kthread[t].pc = "done"
    /\ kpc' = "analyze"
    /\ UNCHANGED <<ivars, probe>>
    /\ UNCHANGED <<k_config, k_now, k_start_time, threads, request_count,
                   kthread, results, k_response_times, pod_distribution,
                   errors, k_outcome>>

\* number of results with success == True
RECURSIVE CountSuccess(_)
CountSuccess(rs) ==
    IF rs = <<>> THEN 0
    ELSE (IF Head(rs).success THEN 1 ELSE 0) + CountSuccess(Tail(rs))

\* int(len(sorted_times) * 0.5), ... * 0.95, ... * 0.99 of analyze_results:
\* the 0-based index of the q-th percentile among n sorted values
k_index(n, q) == (n * q) \div 100

\* k_percentile on the list as it was appended to, without sorted()
k_percentile_Unsorted(times, q) == times[k_index(Len(times), q) + 1]

\* sorted_times[int(len(sorted_times) * q / 100)] of analyze_results
k_percentile(times, q) == Sorted(times)[k_index(Len(times), q) + 1]

\* analyze_results (lines 136-179) with save_results: line 144 divides by
\* len(self.results); otherwise the report of save_results is produced.
analyze_results ==
    IF Len(results) = 0 THEN [kind |-> "ZeroDivisionError"]
    ELSE [ kind                |-> "report",
           total_requests      |-> Len(results),
           successful_requests |-> CountSuccess(results),
           failed_requests     |-> Len(errors),
           pod_distribution    |-> pod_distribution,
           percentiles         |->
               IF k_response_times = <<>> THEN <<>>
               ELSE << k_percentile(k_response_times, 50),
                       k_percentile(k_response_times, 95),
                       k_percentile(k_response_times, 99) >> ]

\* line 134: self.analyze_results()
KAnalyze ==
    /\ kpc = "analyze"
    /\ k_outcome' = analyze_results
    /\ kpc' = "done"
    /\ UNCHANGED <<ivars, probe>>
    /\ UNCHANGED <<k_config, k_now, k_start_time, threads, request_count,
                   kthread, results, k_response_times, pod_distribution,
                   errors>>

KThreads == DOMAIN kthread

\* make_request lines 60-79: requests.get returned r; the result is built
KThreadResponse(t, r) ==
    /\ kthread[t].pc = "get"
    /\ kthread' = [kthread EXCEPT ![t].pc = "append_result", ![t].resp = r]
    /\ UNCHANGED <<ivars, probe>>
    /\ UNCHANGED <<k_config, k_now, k_start_time, kpc, threads,
                   request_count, results, k_response_times,
                   pod_distribution, errors, k_outcome>>

\* line 81: self.results.append(result)
KThreadAppendResult(t) ==
    /\ kthread[t].pc = "append_result"
    /\ results' = Append(results,
                    [thread_id |-> t, kind |-> "response",
                     status_code |-> kthread[t].resp.status,
                     pod_name |-> kthread[t].resp.pod,
                     success |-> kthread[t].resp.status = 200])
    /\ kthread' = [kthread EXCEPT ![t].pc = "append_time"]
    /\ UNCHANGED <<ivars, probe>>
    /\ UNCHANGED <<k_config, k_now, k_start_time, kpc, threads,
                   request_count, k_response_times, pod_distribution, errors,
                   k_outcome>>

\* line 82: self.response_times.append(response_time)
KThreadAppendTime(t) ==
    /\ kthread[t].pc = "append_time"
    /\ k_response_times' = Append(k_response_times, kthread[t].resp.ms)
    /\ kthread' = [kthread EXCEPT ![t].pc = "load_pod"]
    /\ UNCHANGED <<ivars, probe>>
    /\ UNCHANGED <<k_config, k_now, k_start_time, kpc, threads,
                   request_count, results, pod_distribution, errors,
                   k_outcome>>

\* line 83, first half of "self.pod_distribution[pod_name] += 1": the
\* current count is read
KThreadLoadPod(t) ==
    /\ kthread[t].pc = "load_pod"
    /\ kthread' = [kthread EXCEPT
                     ![t].pc = "store_pod",
                     ![t].tmp = pod_distribution[kthread[t].resp.pod]]
    /\ UNCHANGED <<ivars, probe>>
    /\ UNCHANGED <<k_config, k_now, k_start_time, kpc, threads,
                   request_count, results, k_response_times,
                   pod_distribution, errors, k_outcome>>

\* line 83, second half: the count read plus one is stored
KThreadStorePod(t) ==
    /\ kthread[t].pc = "store_pod"
    /\ pod_distribution' =
         [pod_distribution EXCEPT ![kthread[t].resp.pod] = kthread[t].tmp + 1]
    /\ kthread' = [kthread EXCEPT ![t].pc = "done"]
    /\ UNCHANGED <<ivars, probe>>
    /\ UNCHANGED <<k_config, k_now, k_start_time, kpc, threads,
                   request_count, results, k_response_times, errors,
                   k_outcome>>

\* lines 85-92: requests.get raised (timeout, connection error);
\* self.results.append(error)
KThreadException(t) ==
    /\ kthread[t].pc = "get"
    /\ results' = Append(results,
                    [thread_id |-> t, kind |-> "error", status_code |-> 0,
                     pod_name |-> "none", success |-> FALSE])
    /\ kthread' = [kthread EXCEPT ![t].pc = "append_error"]
    /\ UNCHANGED <<ivars, probe>>
    /\ UNCHANGED <<k_config, k_now, k_start_time, kpc, threads,
                   request_count, k_response_times, pod_distribution, errors,
                   k_outcome>>

\* line 93: self.errors.append(error)
KThreadAppendError(t) ==
    /\ kthread[t].pc = "append_error"
    /\ errors' = Append(errors, t)
    /\ kthread' = [kthread EXCEPT ![t].pc = "done"]
    /\ UNCHANGED <<ivars, probe>>
    /\ UNCHANGED <<k_config, k_now, k_start_time, kpc, threads,
                   request_count, results, k_response_times,
                   pod_distribution, k_outcome>>

(* ================== pure functions applied on their own =============== *)

\* configurations main() can build the tester with (it reads each value
\* with int(), without a range check), and clock readings around and after
\* the start of a run; time.time() is the wall clock and can be set back
ProbeInitialTps == {0, 1, 3}
ProbeDeltaMinutes == {1, 2}
ProbeDeltaTps == {-1, 0, 2}
ProbeStartTimes == {None, Epoch}
ProbeClocks == {Epoch - 61, Epoch - 1, Epoch, Epoch + 59, Epoch + 60,
                Epoch + 125}

\* get_current_target_tps called twice on one tester, at clock readings t1
\* and t2
ProbeTargetTps ==
    /\ probe = NoProbe
    /\ \E init \in ProbeInitialTps, dm \in ProbeDeltaMinutes,
          step \in ProbeDeltaTps, st \in ProbeStartTimes,
          t1 \in ProbeClocks, t2 \in ProbeClocks :
          probe' = [ fn                 |-> "get_current_target_tps",
                     initial_tps        |-> init,
                     delta_time_seconds |-> dm * 60,
                     delta_tps          |-> step,
                     start_time         |-> st,
                     t1                 |-> t1,
                     t2                 |-> t2,
                     r1 |-> target_tps(st, t1, init, dm * 60, step),
                     r2 |-> target_tps(st, t2, init, dm * 60, step) ]
    /\ UNCHANGED <<ivars, kvars>>

\* target rates (a schedule with a negative step goes below zero) and
\* values of self.active_workers
ProbeTargets == -1 .. 4
ProbeActiveWorkers == 0 .. 3

\* the delay computation of one worker iteration
ProbeDelay ==
    /\ probe = NoProbe
    /\ \E target \in ProbeTargets, active \in ProbeActiveWorkers :
          probe' = [ fn             |-> "worker_delay",
                     current_target |-> target,
                     active_workers |-> active,
                     divisor        |-> Max(1, active),
                     delay          |-> worker_delay(target, active) ]
    /\ UNCHANGED <<ivars, kvars>>

\* response times in ms, and the non-empty lists of them
ProbeLatencies == {0, 10, 25}
ProbeLatencyLists ==
    UNION {[1 .. n -> ProbeLatencies] : n \in 1 .. MaxLatencies}

\* The percentiles of both testers on one list of response times:
\* np.percentile of calculate_metrics (load_test.py lines 277-280, times
\* 100) and the sorted-list lookups of analyze_results
\* (load_test_enhanced.py lines 148-156)
ProbePercentiles ==
    /\ probe = NoProbe
    /\ \E a \in ProbeLatencyLists :
          probe' = [ fn     |-> "percentiles",
                     data   |-> a,
                     max    |-> SeqMax(a),
                     np_p50 |-> np_percentile_x100(a, 50),
                     np_p90 |-> np_percentile_x100(a, 90),
                     np_p95 |-> np_percentile_x100(a, 95),
                     np_p99 |-> np_percentile_x100(a, 99),
                     i50    |-> k_index(Len(a), 50),
                     i95    |-> k_index(Len(a), 95),
                     i99    |-> k_index(Len(a), 99),
                     p50    |-> k_percentile(a, 50),
                     p95    |-> k_percentile(a, 95),
                     p99    |-> k_percentile(a, 99) ]
    /\ UNCHANGED <<ivars, kvars>>

\* n copies of x
Repeat(x, n) == [i \in 1 .. n |-> x]
\* n response times, a and b in turn
Alternate(a, b, n) == [i \in 1 .. n |-> IF i % 2 = 1 THEN a ELSE b]

\* collect_time_series_data on a tester in the middle of a run, 40 s after
\* its start: nOld outcomes recorded 11 s ago (outside the window), nRecent
\* outcomes at the cutoff itself or just now, f of the recorded outcomes
\* failed and e requests ended in a transport error (counted, not recorded)
ProbeSnapshot ==
    /\ probe = NoProbe
    /\ \E nOld \in 0 .. 1, nRecent \in 0 .. MaxWindowSamples,
          age \in {0, RecentWindow}, a \in ProbeLatencies,
          b \in ProbeLatencies, f \in 0 .. 1, e \in 0 .. 1 :
          LET t   == Epoch + 40
              ts  == Repeat(t - RecentWindow - 1, nOld)
                         \o Repeat(t - age, nRecent)
              rts == Alternate(a, b, nOld + nRecent)
              bad == Min(f, nOld + nRecent)
          IN  probe' = [ fn         |-> "collect_time_series_data",
                         now        |-> t,
                         timestamps |-> ts,
                         response_times |-> rts,
                         successful_requests |-> nOld + nRecent - bad,
                         failed_requests     |-> bad + e,
                         point |-> collect_point(t, Epoch, ts, rts,
                                       nOld + nRecent - bad, bad + e,
                                       initial_tps) ]
    /\ UNCHANGED <<ivars, kvars>>

(* ============================ specification =========================== *)

Next ==
    \/ MainInstall
    \/ MainSetRunning
    \/ MainSetStart
    \/ MainSpawn
    \/ MainStop
    \/ MainReturn
    \/ \E w \in Workers : WorkerStart(w)
    \/ \E w \in Workers : WorkerSend(w)
    \/ \E w \in Workers : \E st \in HttpStatuses : WorkerResponse(w, st)
    \/ \E w \in Workers : WorkerRecord(w)
    \/ \E w \in Workers : WorkerException(w)
    \/ \E w \in Workers : WorkerWake(w)
    \/ \E w \in Workers : WorkerCancelled(w)
    \/ MonitorStart
    \/ MonitorTick
    \/ MonitorCancelled
    \/ SignalHandler
    \/ Tick
    \/ CalculateMetrics

\* the IncrementalLoadTester program; the other tester is not run
Init ==
    /\ \E m \in DurationMinutes : IncrementalInit(m)
    /\ KubernetesInit(0, 1, 0)
    /\ probe = NoProbe

Spec == Init /\ [][Next]_vars

\* the KubernetesLoadTester program; the other tester is not run
InitK ==
    /\ IncrementalInit(0)
    /\ \E total \in KTotalRequests, conc \in KConcurrentThreads,
          dur \in KDurations : KubernetesInit(total, conc, dur)
    /\ probe = NoProbe

NextK ==
    \/ KStart
    \/ \E d \in KSleeps : KLoopIteration(d)
    \/ KLoopExit
    \/ KJoin
    \/ KAnalyze
    \/ \E t \in KThreads : \E r \in KResponses : KThreadResponse(t, r)
    \/ \E t \in KThreads : KThreadAppendResult(t)
    \/ \E t \in KThreads : KThreadAppendTime(t)
    \/ \E t \in KThreads : KThreadLoadPod(t)
    \/ \E t \in KThreads : KThreadStorePod(t)
    \/ \E t \in KThreads : KThreadException(t)
    \/ \E t \in KThreads : KThreadAppendError(t)

SpecK == InitK /\ [][NextK]_vars


\* The tester used as a library: calculate_metrics may also be called
\* early; the run is followed up to that call.
ApiNext ==
    \/ metrics.kind = "not_called" /\ Next
    \/ CalculateMetricsEarly

ApiSpec == Init /\ [][ApiNext]_vars


\* A run in which an iteration of a worker may raise outside make_request
FaultNext ==
    \/ Next
    \/ \E w \in Workers : WorkerFault(w)

FaultSpec == Init /\ [][FaultNext]_vars

\* The steps the program takes by itself.  Signals and responses are the
\* environment's.
ProgramStep ==
    \/ MainInstall \/ MainSetRunning \/ MainSetStart \/ MainSpawn
    \/ MainStop \/ MainReturn
    \/ \E w \in Workers :
         \/ WorkerStart(w) \/ WorkerSend(w) \/ WorkerRecord(w)
         \/ WorkerException(w)
         \/ WorkerWake(w) \/ WorkerCancelled(w)
    \/ MonitorStart \/ MonitorTick \/ MonitorCancelled
    \/ Tick
    \/ CalculateMetrics

\* The scheduling asyncio gives the program: while some task can take a
\* step, a timer is pending (a sleep, the request timeout) or the clock can
\* advance, one of these eventually happens.  Nothing is assumed of the
\* order among them, nor of the environment.
Fairness == WF_vars(ProgramStep)

FairSpec == Init /\ [][Next]_vars /\ Fairness

\* The functions of the testers applied to arguments of their own
PureInit ==
    /\ IncrementalInit(0)
    /\ KubernetesInit(0, 1, 0)
    /\ probe = NoProbe

PureNext ==
    \/ ProbeTargetTps
    \/ ProbeDelay
    \/ ProbePercentiles
    \/ ProbeSnapshot

PureSpec == PureInit /\ [][PureNext]_vars

(* ================================ claims ============================== *)

\* C1: whenever the metrics lock is free, successful_requests +
\* failed_requests equals the number of recorded outcomes, the length of
\* response_times and of timestamps.
C1_CountersMatchOutcomes ==
    lock = None =>
        /\ successful_requests + failed_requests = Len(response_times)
        /\ Len(response_times) = Len(timestamps)

\* C2: a request that ends in a timeout or transport exception (the step
\* that counts status 'error') grows response_times and timestamps by
\* exactly one entry each.
C2_ExceptionRecordsLatency ==
    [][ status_codes'[ERROR] = status_codes[ERROR] + 1 =>
          /\ Len(response_times') = Len(response_times) + 1
          /\ Len(timestamps') = Len(timestamps) + 1 ]_vars

\* C3: when run_load_test has returned, every request that was issued,
\* also one in flight at the stop, is counted in the total.
C3_NoDiscardOnRace ==
    mainpc = "done" => successful_requests + failed_requests = issued

\* C4: if signal_handler ran while the engine was Running, in the duration
\* wait and before the duration had elapsed, the stop step (end_time) happens before the
\* configured duration has elapsed.
C4_InterruptEndsWait ==
    (/\ end_time # None
     /\ signal_time # None
     /\ signal_time < start_time + duration_seconds)
        => end_time < start_time + duration_seconds

\* the stop flag has been set before: the run was started and running is
\* False
StopIssued == EngineState \in {"Stopping", "Stopped"}

\* C5: stop is idempotent.  A signal_handler run after the stop flag is
\* already set changes nothing of the engine (flag, counters, outcomes,
\* worker and monitor tasks, end_time), and the duration-expiry stop after a
\* signal leaves the flag, the counters, the outcomes and the worker set as
\* they were.
C5_StopIdempotent ==
    [][ /\ (StopIssued /\ signals' = signals + 1) =>
              UNCHANGED <<running, sinkVars, active_workers, tasks, monitor,
                          end_time, time_series>>
        /\ (StopIssued /\ mainpc = "sleep" /\ mainpc' = "gather") =>
              /\ UNCHANGED <<running, sinkVars, active_workers>>
              /\ DOMAIN tasks' = DOMAIN tasks ]_vars

\* a run in which the stop was issued three times: two signals, the first
\* while Running, and the duration expiry
C5_Witness ==
    /\ signals = 2
    /\ signal_time # None
    /\ end_time # None
    /\ issued > 0

\* C6: the lifecycle only moves Idle -> Running -> Stopping -> Stopped
\* (Idle -> Stopped only for a zero-duration run), and once stopping or
\* stopped the running flag never becomes True again.
C6_LifecycleForward ==
    [][ /\ \/ EngineState' = EngineState
           \/ <<EngineState, EngineState'>> \in
                 { <<"Idle", "Running">>, <<"Running", "Stopping">>,
                   <<"Stopping", "Stopped">> }
           \/ /\ duration_seconds = 0
              /\ <<EngineState, EngineState'>> = <<"Idle", "Stopped">>
        /\ StopIssued => ~running' ]_vars

\* an interrupted run that went through all four states
C6_Witness ==
    /\ mainpc = "done"
    /\ signal_time # None
    /\ signals = 2

\* every worker task and the monitor task have returned
AllReturned ==
    /\ mainpc \in {"sleep", "gather", "done"}
    /\ \A w \in Workers : tasks[w].pc = "done"
    /\ monitor.pc = "done"

\* C7: once the stop flag is set every worker and the monitor eventually
\* return; run_load_test returns only when all of them have, and then
\* active_workers is 0.
C7_StoppingToStopped ==
    /\ [](mainpc = "done" => AllReturned /\ active_workers = 0)
    /\ (EngineState = "Stopping") ~> AllReturned

\* run_load_test has returned from a run whose workers sent requests
C7_Witness ==
    /\ mainpc = "done"
    /\ Cardinality(Workers) = 2
    /\ issued = MaxRequests
    /\ active_workers = 0

\* C8: calculate_metrics called in a state other than Stopped raises an
\* error; it returns neither None nor a report.
C8_FinalizeOnlyWhenStopped ==
    (metrics.kind # "not_called" /\ metrics_state # "Stopped")
        => metrics.kind \in {"TypeError", "ZeroDivisionError"}

\* C9: after a run in which at least one request was issued and every
\* request failed, calculate_metrics returns a report with
\* successful_requests = 0 and failed_requests = total_requests > 0.
C9_AllFailuresStillReport ==
    (/\ metrics.kind # "not_called"
     /\ metrics_state = "Stopped"
     /\ successful_requests = 0
     /\ failed_requests > 0)
        => /\ metrics.kind = "report"
           /\ metrics.successful_requests = 0
           /\ metrics.total_requests > 0
           /\ metrics.failed_requests = metrics.total_requests


\* C10: a run that recorded zero outcomes ends without an error and reports
\* zero requests / no data: calculate_metrics returns None, and
\* run_load_test followed by analyze_results raises nothing.
C10_EmptyRunNoError ==
    /\ (metrics.kind # "not_called" /\ metrics_state = "Stopped"
          /\ successful_requests + failed_requests = 0)
         => metrics.kind = "None"
    /\ (kpc = "done" /\ Len(results) = 0)
         => k_outcome.kind \notin {"ZeroDivisionError"}

\* C11: a non-positive duration is rejected at startup: with
\* duration_seconds <= 0, running is never set, no worker and no monitor
\* is spawned and no request is issued.
C11_NonPositiveDurationRejected ==
    duration_seconds <= 0 =>
        /\ ~running
        /\ tasks = <<>>
        /\ monitor.pc = "none"
        /\ issued = 0

\* get_current_target_tps has been applied / applied on a started tester
ProbeIsTarget == probe.fn = "get_current_target_tps"
ProbeStarted == ProbeIsTarget /\ probe.start_time # None
\* r is initial_tps + floor(e / delta_time_seconds) * delta_tps, with the
\* floor q characterised by q * delta <= e < (q + 1) * delta
IsStepFormula(e, r) ==
    \E q \in 0 .. 3 :
        /\ q * probe.delta_time_seconds <= e
        /\ e < (q + 1) * probe.delta_time_seconds
        /\ r = probe.initial_tps + q * probe.delta_tps

\* C12: for every elapsed >= 0 and every configuration the target rate is
\* initial_tps + floor(elapsed / delta_time_seconds) * delta_tps, with no
\* upper bound, and it is initial_tps before the run has started.
C12_StepFunction ==
    ProbeIsTarget =>
        /\ probe.start_time = None =>
              probe.r1 = probe.initial_tps /\ probe.r2 = probe.initial_tps
        /\ probe.start_time # None /\ probe.t1 >= probe.start_time =>
              IsStepFormula(probe.t1 - probe.start_time, probe.r1)
        /\ probe.start_time # None /\ probe.t2 >= probe.start_time =>
              IsStepFormula(probe.t2 - probe.start_time, probe.r2)

\* a started tester read two whole intervals after its start, with a
\* non-zero step
C12_Witness ==
    /\ ProbeStarted
    /\ probe.delta_tps # 0
    /\ probe.t1 - probe.start_time >= 2 * probe.delta_time_seconds
    /\ probe.r1 = probe.initial_tps + 2 * probe.delta_tps

\* C13: the target rate is monotonically non-decreasing in elapsed time
\* and equals initial_tps for every elapsed time below delta_time_seconds.
C13_RateNonDecreasing ==
    ProbeStarted /\ probe.t1 >= probe.start_time =>
        /\ probe.t1 <= probe.t2 => probe.r1 <= probe.r2
        /\ probe.t1 - probe.start_time < probe.delta_time_seconds =>
              probe.r1 = probe.initial_tps

\* C14: a negative elapsed time (clock reading earlier than start_time) is
\* treated as 0: the target rate is then exactly initial_tps.
C14_NegativeElapsedIsZero ==
    ProbeStarted /\ probe.t1 < probe.start_time =>
        probe.r1 = probe.initial_tps

\* C15: the sleep delay of a worker iteration equals
\* 1 / max(1, targetRate / activeWorkerCount): it is strictly positive and
\* at most 1 second for every target rate and active worker count, exactly
\* 1.0 for a target rate <= 0, and the worker-count divisor is never 0.
C15_DelayAtMostOneSecond ==
    probe.fn = "worker_delay" =>
        LET T == probe.current_target
            A == probe.divisor
            d == probe.delay
        IN  /\ A >= 1
            /\ d.num > 0 /\ d.den > 0
            /\ d.num <= d.den
            /\ T <= 0 => d.num = d.den
            /\ T >= A => d.num * T = d.den * A
            /\ T < A => d.num = d.den

\* C16: an outcome is a success exactly when the status is 200; any other
\* status and any transport exception is a failure keyed by the status or
\* by 'error'.  So, outside the critical section, successful_requests is
\* status_codes[200] and failed_requests is the sum of all other entries.
C16_CountersMatchStatusCodes ==
    lock = None =>
        /\ successful_requests = status_codes[200]
        /\ failed_requests = FnSum(status_codes, StatusKeys \ {200})

\* a 200, and a failure of each kind with it: a 500 or a transport error
C16_Witness ==
    /\ lock = None
    /\ status_codes[200] = 1
    /\ status_codes[500] = 1 \/ status_codes[ERROR] = 1

\* i is floor(q / 100 * n) and a valid 0-based index into n values
IsFloorIndex(i, q, n) ==
    /\ i * 100 <= q * n
    /\ q * n < (i + 1) * 100
    /\ 0 <= i /\ i < n

C18_TimeSeriesOrdered ==
    [][time_series' # time_series =>
          /\ monitor.pc = "sleeping" /\ monitor'.pc \in {"sleeping", "done"}
          /\ Len(time_series') = Len(time_series) + 1
          /\ SubSeq(time_series', 1, Len(time_series)) = time_series
          /\ time_series # <<>> =>
                time_series'[Len(time_series')].elapsed
                    > time_series[Len(time_series)].elapsed]_vars

\* the monitor has appended three points
C18_Witness ==
    /\ Len(time_series) = 3
    /\ time_series[1].elapsed < time_series[3].elapsed

\* outcomes of a snapshot's probe that fall in its trailing 10 s window
ProbeInWindow ==
    Cardinality({i \in 1 .. Len(probe.timestamps) :
                    probe.now - probe.timestamps[i] <= 10})

C20_ProgressMatchesSeries ==
    time_series # <<>> =>
        LET pt == time_series[Len(time_series)]
            pl == monitor.progress
        IN  /\ pl.target = pt.target_tps
            /\ 2 * pl.actual_x5 = pt.current_tps_x10
            /\ pl.successful * pt.total = pt.successful * pl.total

\* C21: a worker is never terminated by a fault: a request error or an
\* exception raised inside one iteration abandons only that iteration; a
\* worker leaves its loop only because of the stop signal.
C21_FaultKeepsWorker ==
    [][\A w \in Workers :
          (w \in DOMAIN tasks' /\ tasks[w].pc # "done"
              /\ tasks'[w].pc = "done") => ~running]_vars

\* workers that are inside their loop: started and neither returned nor
\* cancelled
InLoop ==
    {w \in Workers : tasks[w].pc \in {"tested", "inflight", "locked",
                                       "sleeping"}}

\* the pool size the configuration calls for
PoolSize ==
    LET peak == initial_tps
                  + (duration_seconds \div (delta_time_minutes * 60)) * delta_tps
    IN  IF peak > 500 THEN 500 ELSE peak

\* pool size, range of active_workers and its meaning, in one state
PoolInvariant ==
    /\ (mainpc \in {"sleep", "gather", "done"}
           => Cardinality(Workers) = PoolSize)
    /\ 0 <= active_workers
    /\ active_workers <= PoolSize
    /\ active_workers = Cardinality(InLoop)

\* C22: the worker pool is bounded and fixed: min(500, initial_tps +
\* (duration_seconds // delta_time_seconds) * delta_tps) workers are
\* spawned, none is added after startup, and always
\* 0 <= active_workers <= pool size with active_workers the number of
\* workers inside their loop.
C22_PoolBoundedAndFixed ==
    /\ []PoolInvariant
    /\ [][mainpc # "spawn" => DOMAIN tasks' = DOMAIN tasks]_vars

\* two workers in their loop at once, and later a worker that has left it
C22_Witness ==
    /\ Cardinality(Workers) = 2
    /\ active_workers = 1
    /\ \E w \in Workers : tasks[w].pc = "done"

\* every published outcome has its latency, timestamp, second bucket and
\* status count
OutcomesWhole ==
    lock = None =>
        /\ Len(response_times) = Len(timestamps)
        /\ Len(timestamps)
              = FnSum(second_buckets, {t \in Times : second_buckets[t] # 0})
        /\ Len(timestamps) = FnSum(status_codes, HttpStatuses)

\* C23: no observer (another worker, the monitor's snapshot, finalize)
\* sees a partially recorded outcome: observers run only while the
\* metrics lock is free, and then len(response_times) = len(timestamps) =
\* the sum of second_buckets = the sum of status_codes over numeric keys.
C23_AtomicPublication ==
    /\ []OutcomesWhole
    /\ [][(time_series' # time_series \/ metrics' # metrics
              \/ response_times' # response_times)
            => lock = None]_vars

\* two outcomes published and seen whole by a later snapshot
C23_Witness ==
    /\ lock = None
    /\ Len(response_times) = 2
    /\ time_series # <<>>
    /\ time_series[Len(time_series)].total = 2

\* the lock is held by a worker inside its critical section only: the
\* holder is not suspended in a request, a response body or a sleep, and
\* the monitor never holds it across its sleep
LockHolderRuns ==
    lock # None =>
        /\ lock \in Workers
        /\ tasks[lock].pc = "locked"

\* C24: the metrics lock is held only for a short critical section with
\* no suspension inside it: no worker or monitor is suspended while
\* holding the lock, so a held lock is always released again and no task
\* blocks forever waiting for it.
C24_LockNeverHeldAcrossAwait ==
    /\ []LockHolderRuns
    /\ (lock # None) ~> (lock = None)

\* a worker inside the critical section while another one is suspended in
\* its request
C24_Witness ==
    /\ lock # None
    /\ tasks[lock].pc = "locked"
    /\ \E w \in Workers : tasks[w].pc = "inflight"

\* C27: after the stop flag has been set (by signal_handler or by duration
\* expiry) no worker starts a new request: every request issued is started
\* while running is True.
C27_NoRequestAfterStop ==
    [][issued' > issued => running]_vars

\* a step in which a worker passes its loop test finds running True, and
\* a step that issues a request is the one request after such a test
RequestFollowsTest ==
    /\ \A w \in Workers :
          (w \in DOMAIN tasks' /\ tasks[w].pc # "tested"
              /\ tasks'[w].pc = "tested") => running
    /\ (issued' > issued) =>
          /\ issued' = issued + 1
          /\ \E w \in Workers :
                 tasks[w].pc = "tested" /\ tasks'[w].pc = "inflight"

\* C27, amended: a worker whose loop test has found the stop flag set
\* starts no new request: every request is the one request that follows a
\* loop test that found running True.  (A signal between that test and the
\* request does not hold the request back.)
C27_NoRequestAfterStopObserved == [][RequestFollowsTest]_vars

\* the flag is set while a worker is between its loop test and its request
C27_Witness ==
    /\ ~running
    /\ signals > 0
    /\ InStep

\* entries of self.results that carry a response (not an error record)
RECURSIVE CountResponses(_)
CountResponses(rs) ==
    IF rs = <<>> THEN 0
    ELSE (IF Head(rs).kind = "response" THEN 1 ELSE 0)
             + CountResponses(Tail(rs))

\* C25: in KubernetesLoadTester, for every interleaving of the request
\* threads, once all threads are joined the sum of the pod_distribution
\* counts equals len(response_times) and the number of results that carry
\* a response: no update is lost.
C25_NoLostUpdate ==
    kpc \in {"analyze", "done"} =>
        /\ FnSum(pod_distribution, PodNames) = Len(k_response_times)
        /\ Len(k_response_times) = CountResponses(results)

\* C26: in the KubernetesLoadTester report, for every mix of outcomes,
\* total_requests = successful_requests + failed_requests: every result
\* whose success is False, a non-200 response included, is a failed request.
C26_ReportTotalsAddUp ==
    k_outcome.kind = "report" =>
        k_outcome.total_requests
            = k_outcome.successful_requests + k_outcome.failed_requests

\* request threads that have not finished
KLive == {t \in KThreads : kthread[t].pc # "done"}

\* the limits of run_load_test in one state
KLimits ==
    /\ Cardinality(KLive) <= k_config.concurrent_threads
    /\ request_count <= k_config.total_requests
    /\ Cardinality(KThreads) = request_count
    /\ kpc \in {"analyze", "done"} => KLive = {}

\* C28: in KubernetesLoadTester.run_load_test the number of live request
\* threads is at most concurrent_threads and the number of requests
\* started at most total_requests; no request is started once the duration
\* has elapsed, and analyze_results runs only after every started thread
\* has finished.
C28_RunLimits ==
    /\ []KLimits
    /\ [][request_count' > request_count =>
             k_now - k_start_time < k_config.duration]_vars

\* a finished run of two requests, one thread at a time
C28_Witness ==
    /\ kpc = "done"
    /\ request_count = 2
    /\ k_config.concurrent_threads = 1
    /\ Len(results) = 2
====
